---- MODULE Spec2Model ----
(***************************************************************************)
(* State-machine model of win_asyncio_io: overlapped pipes, overlapped     *)
(* files, Win32 event waits and the factories of the public surface.       *)
(*                                                                         *)
(* The package runs on a single-threaded proactor loop.  A coroutine is    *)
(* atomic between two awaits, so every action below is one such segment:   *)
(* a call up to its first suspension, or the resumption of a suspended     *)
(* call.  The loop's own callbacks (overlapped completions, connection     *)
(* lost) are actions as well.                                              *)
(*                                                                         *)
(* The specifications share the variables; each drives one part of the     *)
(* package and leaves the rest in its unconstructed state:                 *)
(*   SpecPipe     create_pipe_pair, AsyncPipeReader, AsyncPipeWriter       *)
(*   SpecFile     open_async_writer / open_async_reader and their objects  *)
(*   SpecIO       the pipe objects or the file objects                     *)
(*   SpecWait     AsyncWin32Event.wait, set and reset, under a fair loop   *)
(*   SpecMany     wait_many and its wait tasks, under a fair loop          *)
(*   SpecFactory  the factories and ensure_proactor_loop                   *)
(*   SpecShared, SpecIOFaulty, SpecManyFaulty, SpecManyCancel, SpecConsole *)
(*   and SpecStdin drive the same parts with a second task, a failing      *)
(*   close path or registration, a cancelled caller, one ConsoleModeGuard  *)
(*   scope and one AsyncStdinReader scope.                                 *)
(***************************************************************************)
EXTENDS Integers, Sequences, FiniteSets, TLC

\* ------------------------------------------------------------- bounds
\* Total number of bytes a writer task submits in one run.
MaxBytes == 2
\* Bytes a write transport buffers before it pauses its protocol.
HighWater == 0
\* aclose() calls one task makes on one object.
MaxCloses == 2
\* Reads one task makes that return nothing: as many as its closes.
MaxEmptyReads == MaxCloses
\* Payload lengths of one write call, and sizes of a bounded read.
Sizes == {1, 2}

\* ------------------------------------------------------------ helpers
NL == "\n"
Byte == {"a", NL}

Take(s, k) == SubSeq(s, 1, k)
Drop(s, k) == SubSeq(s, k + 1, Len(s))
Min(a, b) == IF a < b THEN a ELSE b
Max(a, b) == IF a > b THEN a ELSE b

Payloads == UNION {[1..k -> Byte] : k \in Sizes}

\* Index of the first line terminator of s, 0 when it has none.
FirstNL(s) ==
    IF \E i \in 1..Len(s) : s[i] = NL
    THEN CHOOSE i \in 1..Len(s) : s[i] = NL /\ \A j \in 1..(i - 1) : s[j] # NL
    ELSE 0

VARIABLES
    \* ---- pipe pair (pipe.py)
    pMade,        \* create_pipe_pair has returned
    pHasWC,       \* the transports expose wait_closed (release-wait capability)
    wq,           \* write transport: bytes queued, not yet written to the pipe
    wPaused,      \* write protocol paused by the transport (backpressure)
    wClosing,     \* write transport: close() called
    wReleased,    \* write transport: connection lost, write handle closed
    wCloseCalled, \* AsyncPipeWriter._close_called
    wpc,          \* writer task: "idle", "drain" (in drain), "closeWait" (in aclose)
    wDrained,     \* an explicit drain() followed the last write call
    wLast,        \* history, the writer task's latest call when it is a write:
                  \* kind ("await", "nowait", "plain"; "none" for no call or
                  \* another call), queued (its data was appended to the
                  \* transport's queue)
    wCloseRes,    \* outcomes of the writer task's completed aclose() calls
    chan,         \* bytes inside the anonymous pipe
    rbuf,         \* StreamReader._buffer
    reof,         \* StreamReader._eof
    rFlag,        \* AsyncPipeReader._transport_closed
    rtClosing,    \* read transport: close() called
    rtReleased,   \* read transport: connection lost, read handle closed
    rpc,          \* reader task: "idle", "readClose" (read in aclose), "closeWait"
    rCloseRes,    \* outcomes of the reader task's completed aclose() calls
    rCut,         \* the reader was closed explicitly before end-of-stream reached it
    rEmpty,       \* reads that returned nothing so far
    sent,         \* history: bytes passed to awaited write and write_nowait, in order
    plain,        \* history: bytes passed to write() called without await
    fed,          \* history: bytes fed to the StreamReader, in order
    got,          \* history: bytes returned by the reader's calls, in order
    partials,     \* history: bytes carried by IncompleteReadError, in order
    last          \* the reader task's last call: n (readexactly's size, else 0),
                  \* kind ("data" returned, "short" IncompleteReadError), data,
                  \* eof (it found at_eof() or raised on end-of-stream), ret (it
                  \* has returned or raised), post (the call before it had eof)

VARIABLES
    \* ---- overlapped file (fileio.py)
    fMade,        \* open_async_writer has returned the AsyncFileWriter
    fHasWC,       \* the transports expose wait_closed (release-wait capability)
    disk,         \* bytes of the file
    fwBuf,        \* write transport: bytes buffered behind the write in flight
    fwWriting,    \* write transport: an overlapped write is in flight
    fwPaused,     \* write protocol paused by the transport
    fwClosing,    \* write transport: close() called
    fwReleased,   \* write transport: connection lost, handle closed
    fwpc,         \* writer task: "idle", "drain", "closeWait"
    fwCloseRes,   \* outcomes of the writer task's completed aclose() calls
    fwSent,       \* history: bytes passed to AsyncFileWriter.write, in order
    foState,      \* open_async_reader call: "none", "connecting", "raised", "returned"
    foAfterClose, \* open_async_reader was called after the writer's aclose returned
    foHandle,     \* handle created by open_async_reader: "none", "open", "closed"
    frMade,       \* an AsyncFileReader exists
    frSize,       \* file_size the reader was constructed with
    frRemaining,  \* AsyncFileReader._remaining
    frClosed,     \* AsyncFileReader._closed
    frtClosing,   \* read transport: close() called
    frtReleased,  \* read transport: connection lost, handle closed
    frBuf,        \* StreamReader._buffer
    frEof,        \* StreamReader._eof
    frFed,        \* number of bytes of the file the read transport has fed
    frpc,         \* reader task: "idle", "readClose", "closeWait"
    frGot,        \* history: bytes returned by the reader task's reads, in order
    frLast,       \* the reader task's last read: none/n (its argument), data,
                  \* before (the budget when it was called), calls (reads so far)
    frEmpty,      \* reads that returned nothing so far
    frCloseRes,   \* outcomes of the reader task's completed aclose() calls
    frCut         \* aclose() was called on the reader before its budget ran out

VARIABLES
    \* ---- Win32 events (win32event.py)
    evManual,     \* per event: created with manual_reset
    evSignaled,   \* per event: the handle is signaled
    evEverSet,    \* history, per event: it was created signaled or set() since
    evSets,       \* set() calls made so far
    dw,           \* the task calling ev.wait() directly: st ("none", "registered",
                  \* "posted", "woken", "returned", "config"), ev, timed (a timeout
                  \* was passed), by (how its registration ended: "signal",
                  \* "timeout")
    wmEvents,     \* events passed to wait_many, in input order
    wmPc,         \* wait_many call: "idle", "waiting", "returned", "config",
                  \* "cancelling" (cancel() called on its task), "cancelled"
    wmTasks,      \* wait tasks of wait_many, by index: "pending", "registered",
                  \* "posted", "woken", "done", "cancelling", "cancelled",
                  \* "raised"
    wmWoken,      \* the waiter future of asyncio.wait has its result
    wmResult,     \* event wait_many returned, 0 before it returns
    ready,        \* the loop's queue of callbacks, oldest first
    ntodo         \* callbacks the current loop iteration still has to run

VARIABLES
    \* ---- the running loop and the factories of the public surface
    loopKind,     \* "proactor" or "selector"
    stdinType,    \* what GetFileType reports for STDIN: "char", "pipe", "other"
    con,          \* the console and one ConsoleModeGuard scope: mode (the console
                  \* mode), atEnter (history: the mode when __enter__ was called),
                  \* new (new_mode), saved and old (old_mode is not None, its
                  \* value), pc ("new", "in", "enterFailed", "out"), exc (the
                  \* scope ended with an exception in flight), restores (restore
                  \* calls made by __exit__), restoreOk (the last one succeeded),
                  \* exitRet (__exit__: "none", "falsy", "truthy", "raise")
                  \* (for AsyncStdinReader the guard is the one __aenter__ makes)
    fac           \* per factory: st ("idle", "await", "await2", "ok", "config",
                  \* "oserror", "attrerror") and natives, the native calls the
                  \* call has issued, in order

VARIABLES
    \* ---- the transports' handles and a second task (all stream objects)
    envFaulty,    \* the environment injects failures into the close path
    sched,        \* per object: releases its transport has scheduled
    rel,          \* per object: times the handle behind its transport was released
    xRet,         \* per object: how an aclose() by a second task returned: "none",
                  \* "unreleased" (handle not yet released), "released"
    xpc           \* the second task: "idle", or "fwWait" inside AsyncFileWriter.aclose

pvars == <<pMade, pHasWC, wq, wPaused, wClosing, wReleased, wCloseCalled, wpc,
           wDrained, wLast, wCloseRes, chan, rbuf, reof, rFlag, rtClosing, rtReleased,
           rpc, rCloseRes, rCut, rEmpty, sent, plain, fed, got, partials, last>>

fvars == <<fMade, fHasWC, disk, fwBuf, fwWriting, fwPaused, fwClosing, fwReleased,
           fwpc, fwCloseRes, fwSent, foState, foAfterClose, foHandle, frMade, frSize,
           frRemaining, frClosed, frtClosing, frtReleased, frBuf, frEof, frFed, frpc,
           frGot, frLast, frEmpty, frCloseRes, frCut>>

evars == <<evManual, evSignaled, evEverSet, evSets, dw, wmEvents, wmPc, wmTasks,
           wmWoken, wmResult, ready, ntodo>>

gvars == <<loopKind, stdinType, con, fac>>

xvars == <<envFaulty, sched, rel, xRet, xpc>>

vars == <<pvars, fvars, evars, gvars, xvars>>

NoCall == [n |-> 0, kind |-> "none", data |-> <<>>,
           eof |-> FALSE, ret |-> TRUE, post |-> FALSE]

\* ---------------------------------------------- transports and handles
\* The stream objects: pipe reader, pipe writer, file reader, file writer.
Objs == {"pr", "pw", "fr", "fw"}

\* No close has been requested, no second task has called; the environment
\* injects no failure.
XZero ==
    /\ envFaulty = FALSE
    /\ sched = [o \in Objs |-> 0] /\ rel = [o \in Objs |-> 0]
    /\ xRet = [o \in Objs |-> "none"] /\ xpc = "idle"

\* The same with an environment that injects failures into the close path.
XFaulty ==
    /\ envFaulty = TRUE
    /\ sched = [o \in Objs |-> 0] /\ rel = [o \in Objs |-> 0]
    /\ xRet = [o \in Objs |-> "none"] /\ xpc = "idle"

\* What transport.close() can do: on an open transport it starts the close; on
\* one that is already closing it is a teardown race that may raise.  In a
\* faulty environment any call may raise, after it has started the close.
CloseOutcomes(closing) == IF closing \/ envFaulty THEN {"ok", "raise"} ELSE {"ok"}

\* What awaiting transport.wait_closed() can do once the handle is released.
WaitClosedOutcomes == IF envFaulty THEN {"ok", "raise"} ELSE {"ok"}

\* A transport.close() that schedules a release at every call.
CloseSchedulesAlways(closing) == 1

\* Releases one transport.close() schedules: the first call marks the
\* transport closing and schedules the release of its handle, a call on a
\* closing transport returns at once.
CloseSchedules(closing) == IF closing THEN 0 ELSE 1

\* The transport of object o schedules k releases.
Scheduled(o, k) == sched' = [sched EXCEPT ![o] = @ + k]

\* The handle behind the transport of object o is released.
Release(o) == rel' = [rel EXCEPT ![o] = @ + 1]

\* =====================================================================
\* Pipe pair
\* =====================================================================

\* The writer task's call record when its latest call is not a write.
NoWrite == [kind |-> "none", queued |-> FALSE]

\* The unconstructed pipe pair.
PZero ==
    /\ pMade = FALSE /\ pHasWC = FALSE
    /\ wq = <<>> /\ wPaused = FALSE /\ wClosing = FALSE /\ wReleased = FALSE
    /\ wCloseCalled = FALSE /\ wpc = "idle" /\ wDrained = FALSE /\ wCloseRes = <<>>
    /\ wLast = NoWrite
    /\ chan = <<>> /\ rbuf = <<>> /\ reof = FALSE /\ rFlag = FALSE
    /\ rtClosing = FALSE /\ rtReleased = FALSE /\ rpc = "idle" /\ rCloseRes = <<>>
    /\ rCut = FALSE /\ rEmpty = 0
    /\ sent = <<>> /\ plain = <<>> /\ fed = <<>> /\ got = <<>> /\ partials = <<>>
    /\ last = NoCall

\* create_pipe_pair() has returned (reader, writer): both transports are
\* registered, nothing is queued, no flag is set.
PInit ==
    /\ pMade = TRUE /\ pHasWC \in BOOLEAN
    /\ wq = <<>> /\ wPaused = FALSE /\ wClosing = FALSE /\ wReleased = FALSE
    /\ wCloseCalled = FALSE /\ wpc = "idle" /\ wDrained = FALSE /\ wCloseRes = <<>>
    /\ wLast = NoWrite
    /\ chan = <<>> /\ rbuf = <<>> /\ reof = FALSE /\ rFlag = FALSE
    /\ rtClosing = FALSE /\ rtReleased = FALSE /\ rpc = "idle" /\ rCloseRes = <<>>
    /\ rCut = FALSE /\ rEmpty = 0
    /\ sent = <<>> /\ plain = <<>> /\ fed = <<>> /\ got = <<>> /\ partials = <<>>
    /\ last = NoCall

\* ---------------------------------------------------------- the writer
WriteKinds == {"await", "nowait", "plain"}

\* A write_nowait that forgets super().write(data).
WriteQueuesAwaitedOnly(kind) == kind = "await"

\* Whether a write call of the given kind reaches super().write(data).
\* write is a coroutine function: w.write(data) without await only builds the
\* coroutine object, its body never runs.
WriteQueues(kind) == kind # "plain"

\* A write that returns without awaiting drain().
WriteDrainsNever(kind) == FALSE

\* Whether a write call of the given kind goes on to await drain().
WriteDrains(kind) == kind = "await"

\* transport.write(data): dropped once the transport is closing, queued otherwise.
TransportWrite(q, closing, d) == IF closing THEN q ELSE q \o d

LowWater == HighWater \div 4

\* AsyncPipeWriter.write / write_nowait, and write called without await.
PWrite(kind, d) ==
    /\ pMade /\ wpc = "idle" /\ ~wCloseCalled
    /\ Len(sent) + Len(plain) + Len(d) <= MaxBytes
    /\ LET q == IF WriteQueues(kind) THEN TransportWrite(wq, wClosing, d) ELSE wq
           p == wPaused \/ (WriteQueues(kind) /\ Len(q) > HighWater)
       IN /\ wq' = q
          /\ wPaused' = p
          /\ sent' = IF kind = "plain" THEN sent ELSE sent \o d
          /\ plain' = IF kind = "plain" THEN plain \o d ELSE plain
          /\ wpc' = IF WriteDrains(kind) /\ p THEN "drain" ELSE "idle"
    /\ wDrained' = FALSE
    /\ wLast' = [kind |-> kind,
                 queued |-> WriteQueues(kind) /\ TransportWrite(wq, wClosing, d) = wq \o d]
    /\ UNCHANGED <<pMade, pHasWC, wClosing, wReleased, wCloseCalled, wCloseRes,
                   chan, rbuf, reof, rFlag, rtClosing, rtReleased, rpc, rCloseRes,
                   rCut, rEmpty, fed, got, partials, last>>
    /\ UNCHANGED <<fvars, evars, gvars, xvars>>

\* await w.drain() as a call of its own.
PDrain ==
    /\ pMade /\ wpc = "idle" /\ ~wCloseCalled /\ ~wDrained
    /\ wDrained' = TRUE
    /\ wLast' = NoWrite
    /\ wpc' = IF wPaused THEN "drain" ELSE "idle"
    /\ UNCHANGED <<pMade, pHasWC, wq, wPaused, wClosing, wReleased, wCloseCalled,
                   wCloseRes, chan, rbuf, reof, rFlag, rtClosing, rtReleased, rpc,
                   rCloseRes, rCut, rEmpty, sent, plain, fed, got, partials, last>>
    /\ UNCHANGED <<fvars, evars, gvars, xvars>>

\* drain() resumes once the transport has resumed the protocol.
PDrainReturn ==
    /\ wpc = "drain" /\ ~wPaused
    /\ wpc' = "idle"
    /\ UNCHANGED <<pMade, pHasWC, wq, wPaused, wClosing, wReleased, wCloseCalled,
                   wDrained, wLast, wCloseRes, chan, rbuf, reof, rFlag, rtClosing,
                   rtReleased, rpc, rCloseRes, rCut, rEmpty, sent, plain, fed, got,
                   partials, last>>
    /\ UNCHANGED <<fvars, evars, gvars, xvars>>

\* AsyncPipeWriter.aclose up to its suspension.  StreamWriter.wait_closed fails
\* at once on the flow-control protocol and the failure is swallowed; the
\* transport's release is awaited only when the transport exposes wait_closed.
PWAclose ==
    /\ pMade /\ wpc = "idle" /\ Len(wCloseRes) < MaxCloses
    /\ IF wCloseCalled
       THEN /\ wCloseRes' = Append(wCloseRes, "ok")
            /\ UNCHANGED <<wCloseCalled, wClosing, wpc, sched>>
       ELSE /\ wCloseCalled' = TRUE
            /\ wClosing' = TRUE
            /\ Scheduled("pw", CloseSchedules(wClosing) + CloseSchedules(TRUE))
            /\ IF pHasWC /\ ~wReleased
               THEN wpc' = "closeWait" /\ UNCHANGED wCloseRes
               ELSE wpc' = "idle" /\ wCloseRes' = Append(wCloseRes, "ok")
    /\ wLast' = NoWrite
    /\ UNCHANGED <<pMade, pHasWC, wq, wPaused, wReleased, wDrained, chan, rbuf,
                   reof, rFlag, rtClosing, rtReleased, rpc, rCloseRes, rCut, rEmpty,
                   sent, plain, fed, got, partials, last>>
    /\ UNCHANGED <<fvars, evars, gvars>>
    /\ UNCHANGED <<envFaulty, rel, xRet, xpc>>

\* aclose resumes from transport.wait_closed() once the handle is released.
PWAcloseReturn ==
    /\ wpc = "closeWait" /\ wReleased
    /\ wpc' = "idle"
    /\ \E o \in WaitClosedOutcomes : wCloseRes' = Append(wCloseRes, o)
    /\ UNCHANGED <<pMade, pHasWC, wq, wPaused, wClosing, wReleased, wCloseCalled,
                   wDrained, wLast, chan, rbuf, reof, rFlag, rtClosing, rtReleased, rpc,
                   rCloseRes, rCut, rEmpty, sent, plain, fed, got, partials, last>>
    /\ UNCHANGED <<fvars, evars, gvars>>
    /\ UNCHANGED <<envFaulty, sched, rel, xRet, xpc>>

\* ------------------------------------------------------------ the loop
\* The write transport completes an overlapped write of the oldest queued byte
\* and resumes the protocol below the low-water mark.
PLoopWrite ==
    /\ wq # <<>> /\ ~wReleased
    /\ chan' = Append(chan, Head(wq))
    /\ wq' = Tail(wq)
    /\ wPaused' = IF Len(Tail(wq)) <= LowWater THEN FALSE ELSE wPaused
    /\ UNCHANGED <<pMade, pHasWC, wClosing, wReleased, wCloseCalled, wpc, wDrained, wLast,
                   wCloseRes, rbuf, reof, rFlag, rtClosing, rtReleased, rpc,
                   rCloseRes, rCut, rEmpty, sent, plain, fed, got, partials, last>>
    /\ UNCHANGED <<fvars, evars, gvars, xvars>>

\* A closing write transport with nothing queued loses its connection: the
\* write handle is closed.
PWConnLost ==
    /\ wClosing /\ wq = <<>> /\ rel["pw"] < sched["pw"]
    /\ wReleased' = TRUE
    /\ Release("pw")
    /\ UNCHANGED <<pMade, pHasWC, wq, wPaused, wClosing, wCloseCalled, wpc, wDrained, wLast,
                   wCloseRes, chan, rbuf, reof, rFlag, rtClosing, rtReleased, rpc,
                   rCloseRes, rCut, rEmpty, sent, plain, fed, got, partials, last>>
    /\ UNCHANGED <<fvars, evars, gvars>>
    /\ UNCHANGED <<envFaulty, sched, xRet, xpc>>

\* The read transport completes an overlapped read and feeds the reader.
PLoopRead ==
    /\ pMade /\ ~rtClosing /\ ~reof /\ chan # <<>>
    /\ rbuf' = Append(rbuf, Head(chan))
    /\ fed' = Append(fed, Head(chan))
    /\ chan' = Tail(chan)
    /\ UNCHANGED <<pMade, pHasWC, wq, wPaused, wClosing, wReleased, wCloseCalled,
                   wpc, wDrained, wLast, wCloseRes, reof, rFlag, rtClosing, rtReleased, rpc,
                   rCloseRes, rCut, rEmpty, sent, plain, got, partials, last>>
    /\ UNCHANGED <<fvars, evars, gvars, xvars>>

\* The read transport sees the broken pipe (write end closed, pipe empty) and
\* feeds end-of-stream; the protocol keeps the transport open.
PLoopEof ==
    /\ pMade /\ ~rtClosing /\ ~reof /\ chan = <<>> /\ wReleased
    /\ reof' = TRUE
    /\ UNCHANGED <<pMade, pHasWC, wq, wPaused, wClosing, wReleased, wCloseCalled,
                   wpc, wDrained, wLast, wCloseRes, chan, rbuf, rFlag, rtClosing,
                   rtReleased, rpc, rCloseRes, rCut, rEmpty, sent, plain, fed, got,
                   partials, last>>
    /\ UNCHANGED <<fvars, evars, gvars, xvars>>

\* A closing read transport loses its connection: the read handle is closed
\* and the protocol feeds end-of-stream.
PRConnLost ==
    /\ rtClosing /\ rel["pr"] < sched["pr"]
    /\ rtReleased' = TRUE
    /\ Release("pr")
    /\ reof' = TRUE
    /\ UNCHANGED <<pMade, pHasWC, wq, wPaused, wClosing, wReleased, wCloseCalled,
                   wpc, wDrained, wLast, wCloseRes, chan, rbuf, rFlag, rtClosing, rpc,
                   rCloseRes, rCut, rEmpty, sent, plain, fed, got, partials, last>>
    /\ UNCHANGED <<fvars, evars, gvars>>
    /\ UNCHANGED <<envFaulty, sched, xRet, xpc>>

\* ---------------------------------------------------------- the reader
ReadOps == {"read", "readline", "readexactly"}

\* read's size argument: None and -1 both mean until end-of-stream.
TranslateSize(n) == IF n < 0 THEN -1 ELSE n

ReadArgs(op) ==
    CASE op = "read" -> {-1} \cup Sizes
      [] op = "readline" -> {-1}
      [] op = "readexactly" -> Sizes

\* StreamReader's own read/readline/readexactly can complete on (buf, eof).
SuperReady(op, n, buf, eof) ==
    CASE op = "read" -> IF TranslateSize(n) < 0 THEN eof ELSE buf # <<>> \/ eof
      [] op = "readline" -> FirstNL(buf) > 0 \/ eof
      [] op = "readexactly" -> Len(buf) >= n \/ eof

\* Number of bytes the call removes from the buffer.
SuperTake(op, n, buf) ==
    CASE op = "read" -> IF TranslateSize(n) < 0 THEN Len(buf) ELSE Min(n, Len(buf))
      [] op = "readline" -> IF FirstNL(buf) > 0 THEN FirstNL(buf) ELSE Len(buf)
      [] op = "readexactly" -> IF Len(buf) >= n THEN n ELSE Len(buf)

\* The call ends with IncompleteReadError.
SuperShort(op, n, buf) == op = "readexactly" /\ Len(buf) < n

\* Whether the wrapper runs _after_read and finds at_eof(): a call that
\* raises never reaches _after_read.
AfterReadCloses(short, atEof) == ~short /\ atEof

\* A readexactly that catches IncompleteReadError and returns exc.partial.
ShortKindSwallowed == "data"

\* How the wrapper hands over an IncompleteReadError: it propagates.
ShortKind == "short"

\* _TransportBoundStreamReader.read / readline / readexactly up to the
\* suspension inside aclose (if any).
PRead(op, n) ==
    /\ pMade /\ rpc = "idle"
    /\ SuperReady(op, n, rbuf, reof)
    /\ LET k == SuperTake(op, n, rbuf)
           short == SuperShort(op, n, rbuf)
           data == Take(rbuf, k)
           atEof == reof /\ Drop(rbuf, k) = <<>>
           closes == AfterReadCloses(short, atEof) /\ ~rFlag
           waits == closes /\ pHasWC /\ ~rtReleased
       IN /\ k > 0 \/ rEmpty < MaxEmptyReads
          /\ rEmpty' = IF k = 0 THEN rEmpty + 1 ELSE rEmpty
          /\ rbuf' = Drop(rbuf, k)
          /\ got' = IF short /\ ShortKind = "short" THEN got ELSE got \o data
          /\ partials' = IF short /\ ShortKind = "short" THEN partials \o data
                         ELSE partials
          /\ rFlag' = (rFlag \/ closes)
          /\ rtClosing' = (rtClosing \/ closes)
          /\ Scheduled("pr", IF closes THEN CloseSchedules(rtClosing) ELSE 0)
          /\ rpc' = IF waits THEN "readClose" ELSE "idle"
          /\ last' = [n |-> IF op = "readexactly" THEN n ELSE 0,
                      kind |-> IF short THEN ShortKind ELSE "data",
                      data |-> data, eof |-> atEof, ret |-> ~waits,
                      post |-> last.eof]
    /\ UNCHANGED <<pMade, pHasWC, wq, wPaused, wClosing, wReleased, wCloseCalled,
                   wpc, wDrained, wLast, wCloseRes, chan, reof, rtReleased, rCloseRes, rCut,
                   sent, plain, fed>>
    /\ UNCHANGED <<fvars, evars, gvars>>
    /\ UNCHANGED <<envFaulty, rel, xRet, xpc>>

\* _TransportBoundStreamReader.aclose called by the reader task.
PRAclose ==
    /\ pMade /\ rpc = "idle" /\ Len(rCloseRes) < MaxCloses
    /\ IF rFlag
       THEN /\ rCloseRes' = Append(rCloseRes, "ok")
            /\ UNCHANGED <<rFlag, rtClosing, rpc, rCut, sched>>
       ELSE \E o \in CloseOutcomes(rtClosing) :
            /\ rFlag' = TRUE
            /\ Scheduled("pr", CloseSchedules(rtClosing))
            /\ rtClosing' = TRUE
            /\ rCut' = (rCut \/ ~reof)
            /\ IF pHasWC /\ ~rtReleased
               THEN /\ rpc' = (IF o = "ok" THEN "closeWait" ELSE "closeWaitRaise")
                    /\ UNCHANGED rCloseRes
               ELSE rpc' = "idle" /\ rCloseRes' = Append(rCloseRes, o)
    /\ UNCHANGED <<pMade, pHasWC, wq, wPaused, wClosing, wReleased, wCloseCalled,
                   wpc, wDrained, wLast, wCloseRes, chan, rbuf, reof, rtReleased, rEmpty,
                   sent, plain, fed, got, partials, last>>
    /\ UNCHANGED <<fvars, evars, gvars>>
    /\ UNCHANGED <<envFaulty, rel, xRet, xpc>>

\* The reader's aclose resumes from transport.wait_closed(); a read that was
\* closing returns its data.
PRCloseReturn ==
    /\ rpc \in {"readClose", "closeWait", "closeWaitRaise"} /\ rtReleased
    /\ rpc' = "idle"
    /\ \E o \in WaitClosedOutcomes :
          rCloseRes' = CASE rpc = "closeWait" -> Append(rCloseRes, o)
                         [] rpc = "closeWaitRaise" -> Append(rCloseRes, "raise")
                         [] OTHER -> rCloseRes
    /\ last' = IF rpc = "readClose" THEN [last EXCEPT !.ret = TRUE] ELSE last
    /\ UNCHANGED <<pMade, pHasWC, wq, wPaused, wClosing, wReleased, wCloseCalled,
                   wpc, wDrained, wLast, wCloseRes, chan, rbuf, reof, rFlag, rtClosing,
                   rtReleased, rCut, rEmpty, sent, plain, fed, got, partials>>
    /\ UNCHANGED <<fvars, evars, gvars>>
    /\ UNCHANGED <<envFaulty, sched, rel, xRet, xpc>>

PNext ==
    \/ \E kind \in WriteKinds, d \in Payloads : PWrite(kind, d)
    \/ PDrain
    \/ PDrainReturn
    \/ PWAclose
    \/ PWAcloseReturn
    \/ PLoopWrite
    \/ PWConnLost
    \/ PLoopRead
    \/ PLoopEof
    \/ PRConnLost
    \/ \E op \in ReadOps : \E n \in ReadArgs(op) : PRead(op, n)
    \/ PRAclose
    \/ PRCloseReturn

\* =====================================================================
\* Overlapped file
\* =====================================================================
fenv == <<fMade, fHasWC>>
fwv == <<fwBuf, fwWriting, fwPaused, fwClosing, fwReleased, fwpc, fwCloseRes, fwSent>>
fov == <<foState, foAfterClose, foHandle>>
frv == <<frMade, frSize, frRemaining, frClosed, frtClosing, frtReleased, frBuf,
         frEof, frFed, frpc, frGot, frLast, frEmpty, frCloseRes, frCut>>

NoRead == [none |-> TRUE, n |-> 0, data |-> <<>>, before |-> 0, calls |-> 0]

\* No file object exists.
FZero ==
    /\ fMade = FALSE /\ fHasWC = FALSE /\ disk = <<>>
    /\ fwBuf = <<>> /\ fwWriting = FALSE /\ fwPaused = FALSE /\ fwClosing = FALSE
    /\ fwReleased = FALSE /\ fwpc = "idle" /\ fwCloseRes = <<>> /\ fwSent = <<>>
    /\ foState = "none" /\ foAfterClose = FALSE /\ foHandle = "none"
    /\ frMade = FALSE /\ frSize = 0 /\ frRemaining = 0 /\ frClosed = FALSE
    /\ frtClosing = FALSE /\ frtReleased = FALSE /\ frBuf = <<>> /\ frEof = FALSE
    /\ frFed = 0 /\ frpc = "idle" /\ frGot = <<>> /\ frLast = NoRead /\ frEmpty = 0
    /\ frCloseRes = <<>> /\ frCut = FALSE

\* open_async_writer(path) has returned: CREATE_ALWAYS left an empty file, the
\* write transport is registered and idle.  No reader exists yet.
FInit ==
    /\ fMade = TRUE /\ fHasWC \in BOOLEAN /\ disk = <<>>
    /\ fwBuf = <<>> /\ fwWriting = FALSE /\ fwPaused = FALSE /\ fwClosing = FALSE
    /\ fwReleased = FALSE /\ fwpc = "idle" /\ fwCloseRes = <<>> /\ fwSent = <<>>
    /\ foState = "none" /\ foAfterClose = FALSE /\ foHandle = "none"
    /\ frMade = FALSE /\ frSize = 0 /\ frRemaining = 0 /\ frClosed = FALSE
    /\ frtClosing = FALSE /\ frtReleased = FALSE /\ frBuf = <<>> /\ frEof = FALSE
    /\ frFed = 0 /\ frpc = "idle" /\ frGot = <<>> /\ frLast = NoRead /\ frEmpty = 0
    /\ frCloseRes = <<>> /\ frCut = FALSE

\* StreamWriter.wait_closed() over the flow-control protocol: the protocol has
\* no close waiter, the call raises at once.
WriterWaitClosed == "raise"

\* ----------------------------------------------------- AsyncFileWriter
\* AsyncFileWriter.write: writer.write(data), then await writer.drain().  An
\* idle transport starts the overlapped write at once; a busy one buffers.
FWrite(d) ==
    /\ fMade /\ fwpc = "idle" /\ fwCloseRes = <<>> /\ ~fwClosing
    /\ Len(fwSent) + Len(d) <= MaxBytes
    /\ fwSent' = fwSent \o d
    /\ IF ~fwWriting
       THEN /\ disk' = disk \o d
            /\ fwWriting' = TRUE
            /\ UNCHANGED <<fwBuf, fwPaused>>
       ELSE /\ fwBuf' = fwBuf \o d
            /\ fwPaused' = (fwPaused \/ Len(fwBuf \o d) > HighWater)
            /\ UNCHANGED <<disk, fwWriting>>
    /\ fwpc' = IF fwPaused' THEN "drain" ELSE "idle"
    /\ UNCHANGED <<fwClosing, fwReleased, fwCloseRes, fenv, fov, frv>>
    /\ UNCHANGED <<pvars, evars, gvars, xvars>>

\* drain() resumes once the transport has resumed the protocol.
FWDrainReturn ==
    /\ fwpc = "drain" /\ ~fwPaused
    /\ fwpc' = "idle"
    /\ UNCHANGED <<disk, fwBuf, fwWriting, fwPaused, fwClosing, fwReleased,
                   fwCloseRes, fwSent, fenv, fov, frv>>
    /\ UNCHANGED <<pvars, evars, gvars, xvars>>

\* An aclose without the except clauses around its teardown calls.
FWSwallowNothing(out) == out

\* The except clauses of AsyncFileWriter.aclose: a failing teardown call is
\* suppressed and aclose goes on.
FWSwallow(out) == "ok"

\* AsyncFileWriter.aclose up to its suspension.  It keeps no closed flag: every
\* call runs writer.close(), writer.wait_closed(), transport.close() and the
\* transport's release-wait again.
FWAclose ==
    /\ fMade /\ fwpc = "idle" /\ Len(fwCloseRes) < MaxCloses
    /\ \E o1 \in CloseOutcomes(fwClosing), o3 \in CloseOutcomes(TRUE) :
          LET raised == \/ FWSwallow(o1) = "raise"
                        \/ FWSwallow(WriterWaitClosed) = "raise"
                        \/ FWSwallow(o3) = "raise"
          IN /\ fwClosing' = TRUE
             /\ Scheduled("fw", CloseSchedules(fwClosing) + CloseSchedules(TRUE))
             /\ IF raised
                THEN fwpc' = "idle" /\ fwCloseRes' = Append(fwCloseRes, "raise")
                ELSE IF fHasWC /\ ~fwReleased
                     THEN fwpc' = "closeWait" /\ UNCHANGED fwCloseRes
                     ELSE /\ fwpc' = "idle"
                          /\ \E o \in (IF fHasWC THEN WaitClosedOutcomes ELSE {"ok"}) :
                                fwCloseRes' = Append(fwCloseRes, o)
    /\ UNCHANGED <<disk, fwBuf, fwWriting, fwPaused, fwReleased, fwSent, fenv, fov,
                   frv>>
    /\ UNCHANGED <<pvars, evars, gvars>>
    /\ UNCHANGED <<envFaulty, rel, xRet, xpc>>

\* aclose resumes from transport.wait_closed() once the handle is released.
FWAcloseReturn ==
    /\ fwpc = "closeWait" /\ fwReleased
    /\ fwpc' = "idle"
    /\ \E o \in WaitClosedOutcomes : fwCloseRes' = Append(fwCloseRes, o)
    /\ UNCHANGED <<disk, fwBuf, fwWriting, fwPaused, fwClosing, fwReleased, fwSent,
                   fenv, fov, frv>>
    /\ UNCHANGED <<pvars, evars, gvars>>
    /\ UNCHANGED <<envFaulty, sched, rel, xRet, xpc>>

\* The overlapped write in flight completes: the transport starts the next
\* write with everything it buffered, or becomes idle.
FLoopWrite ==
    /\ fwWriting
    /\ IF fwBuf # <<>>
       THEN /\ disk' = disk \o fwBuf
            /\ fwBuf' = <<>>
            /\ fwPaused' = FALSE
            /\ UNCHANGED fwWriting
       ELSE /\ fwWriting' = FALSE
            /\ UNCHANGED <<disk, fwBuf, fwPaused>>
    /\ UNCHANGED <<fwClosing, fwReleased, fwpc, fwCloseRes, fwSent, fenv, fov, frv>>
    /\ UNCHANGED <<pvars, evars, gvars, xvars>>

\* A closing, idle write transport loses its connection: the handle is closed.
FWConnLost ==
    /\ fwClosing /\ ~fwWriting /\ fwBuf = <<>> /\ rel["fw"] < sched["fw"]
    /\ fwReleased' = TRUE
    /\ Release("fw")
    /\ UNCHANGED <<disk, fwBuf, fwWriting, fwPaused, fwClosing, fwpc, fwCloseRes,
                   fwSent, fenv, fov, frv>>
    /\ UNCHANGED <<pvars, evars, gvars>>
    /\ UNCHANGED <<envFaulty, sched, xRet, xpc>>

\* --------------------------------------------------- open_async_reader
\* Whether win_asyncio_io.winapi defines the function: it defines CreateFile,
\* GetStdHandle, GetFileType, CloseHandle, CreateEvent, SetEvent, ResetEvent.
WinapiHas(name) ==
    name \in {"CreateFile", "GetStdHandle", "GetFileType", "CloseHandle",
              "CreateEvent", "SetEvent", "ResetEvent"}

\* AsyncFileReader.__init__.
NewRemaining(fileSize) == Max(fileSize, 0)

\* open_async_reader up to its suspension in connect_read_pipe: the loop is
\* checked, CreateFile yields the handle, the read transport takes it.
FOpenReaderCall ==
    /\ fMade /\ foState = "none" /\ ~frMade
    /\ foState' = "connecting"
    /\ foHandle' = "open"
    /\ foAfterClose' = (fwSent # <<>> /\ Len(fwCloseRes) > 0)
    /\ UNCHANGED <<disk, fwv, fenv, frv>>
    /\ UNCHANGED <<pvars, evars, gvars, xvars>>

\* open_async_reader after connect_read_pipe: winapi.GetFileSizeEx(osfhandle),
\* then AsyncFileReader(reader, transport, file_size).  The attribute lookup
\* fails when winapi has no such function, and the call ends there.
FOpenReaderResume ==
    /\ foState = "connecting"
    /\ IF WinapiHas("GetFileSizeEx")
       THEN /\ foState' = "returned"
            /\ frMade' = TRUE
            /\ frSize' = Len(disk)
            /\ frRemaining' = NewRemaining(Len(disk))
            /\ UNCHANGED <<frClosed, frtClosing, frtReleased, frBuf, frEof, frFed,
                           frpc, frGot, frLast, frEmpty, frCloseRes, frCut>>
       ELSE /\ foState' = "raised"
            /\ UNCHANGED frv
    /\ UNCHANGED <<disk, fwv, fenv, foAfterClose, foHandle>>
    /\ UNCHANGED <<pvars, evars, gvars, xvars>>

\* ----------------------------------------------------- AsyncFileReader
\* AsyncFileReader(reader, transport, file_size) built by the caller over a
\* read transport on the file, file_size being the file's size.
FNewReader ==
    /\ fMade /\ ~frMade /\ foState = "none"
    /\ frMade' = TRUE
    /\ frSize' = Len(disk)
    /\ frRemaining' = NewRemaining(Len(disk))
    /\ UNCHANGED <<frClosed, frtClosing, frtReleased, frBuf, frEof, frFed, frpc,
                   frGot, frLast, frEmpty, frCloseRes, frCut>>
    /\ UNCHANGED <<disk, fwv, fenv, fov>>
    /\ UNCHANGED <<pvars, evars, gvars, xvars>>

\* Largest number of bytes one overlapped read of the read transport feeds.
FileChunk == 1

\* The read transport completes an overlapped read and feeds the reader.
FLoopRead ==
    /\ frMade /\ ~frtClosing /\ ~frEof /\ frFed < Len(disk)
    /\ LET k == Min(FileChunk, Len(disk) - frFed)
       IN /\ frBuf' = frBuf \o SubSeq(disk, frFed + 1, frFed + k)
          /\ frFed' = frFed + k
    /\ UNCHANGED <<frMade, frSize, frRemaining, frClosed, frtClosing, frtReleased,
                   frEof, frpc, frGot, frLast, frEmpty, frCloseRes, frCut>>
    /\ UNCHANGED <<disk, fwv, fenv, fov>>
    /\ UNCHANGED <<pvars, evars, gvars, xvars>>

\* The read transport finds nothing more in the file and feeds end-of-stream
\* (the transport may as well never do so).
FLoopEof ==
    /\ frMade /\ ~frtClosing /\ ~frEof /\ frFed = Len(disk)
    /\ frEof' = TRUE
    /\ UNCHANGED <<frMade, frSize, frRemaining, frClosed, frtClosing, frtReleased,
                   frBuf, frFed, frpc, frGot, frLast, frEmpty, frCloseRes, frCut>>
    /\ UNCHANGED <<disk, fwv, fenv, fov>>
    /\ UNCHANGED <<pvars, evars, gvars, xvars>>

\* A closing read transport loses its connection: the handle is closed and the
\* protocol feeds end-of-stream.
FRConnLost ==
    /\ frtClosing /\ rel["fr"] < sched["fr"]
    /\ frtReleased' = TRUE
    /\ Release("fr")
    /\ frEof' = TRUE
    /\ UNCHANGED <<frMade, frSize, frRemaining, frClosed, frtClosing, frBuf, frFed,
                   frpc, frGot, frLast, frEmpty, frCloseRes, frCut>>
    /\ UNCHANGED <<disk, fwv, fenv, fov>>
    /\ UNCHANGED <<pvars, evars, gvars>>
    /\ UNCHANGED <<envFaulty, sched, xRet, xpc>>

\* read's argument: None, or a positive size.
FReadArgs == {[none |-> TRUE, n |-> 0]} \cup {[none |-> FALSE, n |-> k] : k \in Sizes}

\* A read that ignores its size argument.
ToReadWhole(arg, remaining) == remaining

\* A read that asks the stream for n whatever the budget.
ToReadUncapped(arg, remaining) == IF arg.none THEN remaining ELSE arg.n

\* to_read of AsyncFileReader.read.
ToRead(arg, remaining) ==
    IF arg.none THEN remaining ELSE Max(Min(arg.n, remaining), 0)

\* AsyncFileReader.read up to the suspension inside aclose (if any).
FRead(arg) ==
    /\ frMade /\ frpc = "idle"
    /\ LET want == IF frRemaining = 0 THEN 0 ELSE ToRead(arg, frRemaining)
       IN IF want = 0
          THEN /\ frEmpty < MaxEmptyReads
               /\ frEmpty' = frEmpty + 1
               /\ frLast' = [none |-> arg.none, n |-> arg.n, data |-> <<>>,
                              before |-> frRemaining, calls |-> Min(frLast.calls + 1, 2)]
               /\ UNCHANGED <<frRemaining, frClosed, frtClosing, frBuf, frpc, frGot, sched>>
          ELSE /\ frBuf # <<>> \/ frEof
               /\ LET data == Take(frBuf, Min(want, Len(frBuf)))
                      left == Max(frRemaining - Len(data), 0)
                      atEof == frEof /\ Drop(frBuf, Len(data)) = <<>>
                      closes == (left = 0 \/ atEof) /\ ~frClosed
                  IN /\ data # <<>> \/ frEmpty < MaxEmptyReads
                     /\ frEmpty' = IF data = <<>> THEN frEmpty + 1 ELSE frEmpty
                     /\ frBuf' = Drop(frBuf, Len(data))
                     /\ frRemaining' = left
                     /\ frGot' = frGot \o data
                     /\ frLast' = [none |-> arg.none, n |-> arg.n, data |-> data,
                                    before |-> frRemaining,
                                    calls |-> Min(frLast.calls + 1, 2)]
                     /\ frClosed' = (frClosed \/ closes)
                     /\ frtClosing' = (frtClosing \/ closes)
                     /\ Scheduled("fr", IF closes THEN CloseSchedules(frtClosing) ELSE 0)
                     /\ frpc' = IF closes /\ fHasWC /\ ~frtReleased
                                THEN "readClose" ELSE "idle"
    /\ UNCHANGED <<frMade, frSize, frtReleased, frEof, frFed, frCloseRes, frCut>>
    /\ UNCHANGED <<disk, fwv, fenv, fov>>
    /\ UNCHANGED <<pvars, evars, gvars>>
    /\ UNCHANGED <<envFaulty, rel, xRet, xpc>>

\* The _closed test that opens AsyncFileReader.aclose.
FRClosedSeen(flag) == flag

\* AsyncFileReader.aclose called by the reader task: transport.close() in a
\* try whose finally awaits the release; a failure of close() propagates.
FRAclose ==
    /\ frMade /\ frpc = "idle" /\ Len(frCloseRes) < MaxCloses
    /\ IF FRClosedSeen(frClosed)
       THEN /\ frCloseRes' = Append(frCloseRes, "ok")
            /\ UNCHANGED <<frClosed, frtClosing, frpc, frCut, sched>>
       ELSE \E o \in CloseOutcomes(frtClosing) :
            /\ frClosed' = TRUE
            /\ frtClosing' = TRUE
            /\ Scheduled("fr", CloseSchedules(frtClosing))
            /\ frCut' = (frCut \/ frRemaining > 0)
            /\ IF fHasWC /\ ~frtReleased
               THEN /\ frpc' = (IF o = "ok" THEN "closeWait" ELSE "closeWaitRaise")
                    /\ UNCHANGED frCloseRes
               ELSE frpc' = "idle" /\ frCloseRes' = Append(frCloseRes, o)
    /\ UNCHANGED <<frMade, frSize, frRemaining, frtReleased, frBuf, frEof, frFed,
                   frGot, frLast, frEmpty>>
    /\ UNCHANGED <<disk, fwv, fenv, fov>>
    /\ UNCHANGED <<pvars, evars, gvars>>
    /\ UNCHANGED <<envFaulty, rel, xRet, xpc>>

\* The reader's aclose resumes from transport.wait_closed(); a read that was
\* closing returns its data.
FRCloseReturn ==
    /\ frpc \in {"readClose", "closeWait", "closeWaitRaise"} /\ frtReleased
    /\ frpc' = "idle"
    /\ \E o \in WaitClosedOutcomes :
          frCloseRes' = CASE frpc = "closeWait" -> Append(frCloseRes, o)
                          [] frpc = "closeWaitRaise" -> Append(frCloseRes, "raise")
                          [] OTHER -> frCloseRes
    /\ UNCHANGED <<frMade, frSize, frRemaining, frClosed, frtClosing, frtReleased,
                   frBuf, frEof, frFed, frGot, frLast, frEmpty, frCut>>
    /\ UNCHANGED <<disk, fwv, fenv, fov>>
    /\ UNCHANGED <<pvars, evars, gvars>>
    /\ UNCHANGED <<envFaulty, sched, rel, xRet, xpc>>

FNext ==
    \/ \E d \in Payloads : FWrite(d)
    \/ FWDrainReturn
    \/ FWAclose
    \/ FWAcloseReturn
    \/ FLoopWrite
    \/ FWConnLost
    \/ FOpenReaderCall
    \/ FOpenReaderResume
    \/ FNewReader
    \/ FLoopRead
    \/ FLoopEof
    \/ FRConnLost
    \/ \E arg \in FReadArgs : FRead(arg)
    \/ FRAclose
    \/ FRCloseReturn

\* =====================================================================
\* A second task closing a shared stream object
\* =====================================================================

\* The object's own task is suspended inside aclose, waiting for the release.
Suspended(o) ==
    CASE o = "pr" -> rpc \in {"readClose", "closeWait", "closeWaitRaise"}
      [] o = "pw" -> wpc = "closeWait"
      [] o = "fr" -> frpc \in {"readClose", "closeWait", "closeWaitRaise"}
      [] o = "fw" -> fwpc = "closeWait"

\* The flag that opens the object's aclose; AsyncFileWriter keeps none.
ClosedFlag(o) ==
    CASE o = "pr" -> rFlag
      [] o = "pw" -> wCloseCalled
      [] o = "fr" -> frClosed
      [] o = "fw" -> FALSE

ClosingOf(o) ==
    CASE o = "pr" -> rtClosing
      [] o = "pw" -> wClosing
      [] o = "fr" -> frtClosing
      [] o = "fw" -> fwClosing

HandleReleased(o) ==
    CASE o = "pr" -> rtReleased
      [] o = "pw" -> wReleased
      [] o = "fr" -> frtReleased
      [] o = "fw" -> fwReleased

\* The object's transport exposes wait_closed.
Capable(o) == IF o \in {"pr", "pw"} THEN pHasWC ELSE fHasWC

\* Outcomes of the completed aclose() calls of the object's own task.
CloseResOf(o) ==
    CASE o = "pr" -> rCloseRes
      [] o = "pw" -> wCloseRes
      [] o = "fr" -> frCloseRes
      [] o = "fw" -> fwCloseRes

\* await o.aclose() by a second task while the object's own task is suspended
\* in its close.  With the flag set the call returns at once.  AsyncFileWriter
\* runs its teardown again and awaits the release itself.
XAclose(o) ==
    /\ Suspended(o) /\ xRet[o] = "none" /\ xpc = "idle"
    /\ IF ClosedFlag(o)
       THEN /\ xRet' = [xRet EXCEPT ![o] = IF HandleReleased(o) THEN "released"
                                            ELSE "unreleased"]
            /\ UNCHANGED <<xpc, sched>>
       ELSE /\ Scheduled(o, CloseSchedules(ClosingOf(o)) + CloseSchedules(TRUE))
            /\ IF Capable(o) /\ ~HandleReleased(o)
               THEN xpc' = "fwWait" /\ UNCHANGED xRet
               ELSE xRet' = [xRet EXCEPT ![o] = "released"] /\ UNCHANGED xpc
    /\ UNCHANGED <<envFaulty, rel>>
    /\ UNCHANGED <<pvars, fvars, evars, gvars>>

\* The second task's AsyncFileWriter.aclose resumes from wait_closed().
XAcloseReturn ==
    /\ xpc = "fwWait" /\ fwReleased
    /\ xpc' = "idle"
    /\ xRet' = [xRet EXCEPT !["fw"] = "released"]
    /\ UNCHANGED <<envFaulty, sched, rel>>
    /\ UNCHANGED <<pvars, fvars, evars, gvars>>

XNext ==
    \/ \E o \in Objs : XAclose(o)
    \/ XAcloseReturn

\* =====================================================================
\* The running loop (utils.py)
\* =====================================================================

LoopKinds == {"proactor", "selector"}

\* ensure_proactor_loop: "ok", or "config" for the RuntimeError it raises
\* when loop._proactor is not an IocpProactor.
EnsureProactorLoop(kind) == IF kind = "proactor" THEN "ok" ELSE "config"

\* =====================================================================
\* Win32 events (win32event.py)
\*
\* The loop is modelled with its queue of ready callbacks: an iteration
\* polls the completion port once, then runs the callbacks that are queued
\* at that moment (ntodo of them), oldest first.  A wait registration is
\* identified by 0 (the direct wait() call) or by the index of the wait task
\* of wait_many.  SetEvent, ResetEvent, the calls of wait() and wait_many()
\* and the expiry of a deadline happen at any time.
\* =====================================================================

Ev == {1, 2}
\* set() calls in one run.
MaxSets == 2
\* Inputs of wait_many: lists of one or two events, repetitions included.
ManyInputs == UNION {[1..k -> Ev] : k \in {1, 2}}

NoWait == [st |-> "none", ev |-> 1, timed |-> FALSE, by |-> "none"]

\* No event call has been made; the events are auto-reset and not signaled.
EZero ==
    /\ evManual = [e \in Ev |-> FALSE] /\ evSignaled = [e \in Ev |-> FALSE]
    /\ evEverSet = [e \in Ev |-> FALSE] /\ evSets = 0 /\ dw = NoWait
    /\ wmEvents = <<>> /\ wmPc = "idle" /\ wmTasks = <<>> /\ wmWoken = FALSE
    /\ wmResult = 0 /\ ready = <<>> /\ ntodo = 0

\* AsyncWin32Event(manual_reset, initial_state) for each event.
EInit ==
    /\ evManual \in [Ev -> BOOLEAN] /\ evSignaled \in [Ev -> BOOLEAN]
    /\ evEverSet = evSignaled /\ evSets = 0 /\ dw = NoWait
    /\ wmEvents = <<>> /\ wmPc = "idle" /\ wmTasks = <<>> /\ wmWoken = FALSE
    /\ wmResult = 0 /\ ready = <<>> /\ ntodo = 0

\* Callbacks of the loop's ready queue.
DwStep == [k |-> "wait", i |-> 0]
TaskStep(i) == [k |-> "task", i |-> i]
OnCompletion(i) == [k |-> "completion", i |-> i]
WmStep == [k |-> "many", i |-> 0]

RegEvent(r) == IF r = 0 THEN dw.ev ELSE wmEvents[r]
RegState(r) == IF r = 0 THEN dw.st ELSE wmTasks[r]
RegsIn(st) == {r \in {0} \cup DOMAIN wmTasks : RegState(r) = st}
\* Registrations the thread pool is waiting on for event e.
RegsOn(e) == {r \in RegsIn("registered") : RegEvent(r) = e}

\* A deadline that is armed although no timeout was passed.
HasDeadlineAlways(timed) == TRUE

\* wait(timeout) passes its timeout to wait_for_handle; None is INFINITE.
HasDeadline(timed) == timed

RegTimed(r) == IF r = 0 THEN HasDeadline(dw.timed) ELSE HasDeadline(FALSE)

\* proactor.wait_for_handle on event e: the registered wait is satisfied at
\* once when the handle is signaled.
WaitForHandle(e) == IF evSignaled[e] THEN "posted" ELSE "registered"

\* A wait satisfied on event e, or WaitForSingleObject(e, 0): an auto-reset
\* event loses its signal, a manual-reset event keeps it.
Consume(sig, e) == [sig EXCEPT ![e] = @ /\ evManual[e]]

\* The registrations in R post their completion packets.
Post(R, by) ==
    /\ dw' = IF 0 \in R THEN [dw EXCEPT !.st = "posted", !.by = by] ELSE dw
    /\ wmTasks' = [i \in DOMAIN wmTasks |->
                      IF i \in R THEN "posted" ELSE wmTasks[i]]

\* await ev.wait(timeout) by a task of the application, up to its suspension.
EWait(e, timed) ==
    /\ dw.st = "none"
    /\ IF EnsureProactorLoop(loopKind) # "ok"
       THEN /\ dw' = [NoWait EXCEPT !.st = "config", !.ev = e, !.timed = timed]
            /\ UNCHANGED evSignaled
       ELSE /\ dw' = [st |-> WaitForHandle(e), ev |-> e, timed |-> timed,
                      by |-> IF evSignaled[e] THEN "signaled" ELSE "none"]
            /\ evSignaled' = Consume(evSignaled, e)
    /\ UNCHANGED <<evManual, evEverSet, evSets, wmEvents, wmPc, wmTasks,
                   wmWoken, wmResult, ready, ntodo>>
    /\ UNCHANGED <<pvars, fvars, gvars, xvars>>

\* Waits that one SetEvent on e releases: none when nothing waits, every
\* wait of a manual-reset event, exactly one wait of an auto-reset event.
Released(e) ==
    IF RegsOn(e) = {} THEN {{}}
    ELSE IF evManual[e] THEN {RegsOn(e)}
    ELSE {{r} : r \in RegsOn(e)}

\* ev.set()
ESet(e) ==
    /\ evSets < MaxSets
    /\ evSets' = evSets + 1
    /\ evEverSet' = [evEverSet EXCEPT ![e] = TRUE]
    /\ \E R \in Released(e) : Post(R, "set")
    /\ evSignaled' = [evSignaled EXCEPT ![e] = evManual[e] \/ RegsOn(e) = {}]
    /\ UNCHANGED <<evManual, wmEvents, wmPc, wmWoken, wmResult, ready, ntodo>>
    /\ UNCHANGED <<pvars, fvars, gvars, xvars>>

\* ev.reset() on a signaled event
EReset(e) ==
    /\ evSignaled[e]
    /\ evSignaled' = [evSignaled EXCEPT ![e] = FALSE]
    /\ UNCHANGED <<evManual, evEverSet, evSets, dw, wmEvents, wmPc, wmTasks,
                   wmWoken, wmResult, ready, ntodo>>
    /\ UNCHANGED <<pvars, fvars, gvars, xvars>>

\* The deadline of registration r passes before its event is signaled.
ETimeout(r) ==
    /\ r \in RegsIn("registered")
    /\ RegTimed(r)
    /\ Post({r}, "timeout")
    /\ UNCHANGED <<evManual, evSignaled, evEverSet, evSets, wmEvents, wmPc,
                   wmWoken, wmResult, ready, ntodo>>
    /\ UNCHANGED <<pvars, fvars, gvars, xvars>>

\* wait_many(events) up to its suspension in asyncio.wait: the wait tasks are
\* created and queued, none has run yet.
EWaitManyCall(evs) ==
    /\ wmPc = "idle"
    /\ wmEvents' = evs
    /\ IF EnsureProactorLoop(loopKind) # "ok"
       THEN /\ wmPc' = "config"
            /\ UNCHANGED <<wmTasks, ready>>
       ELSE /\ wmPc' = "waiting"
            /\ wmTasks' = [i \in 1..Len(evs) |-> "pending"]
            /\ ready' = ready \o [i \in 1..Len(evs) |-> TaskStep(i)]
    /\ UNCHANGED <<evManual, evSignaled, evEverSet, evSets, dw, wmWoken,
                   wmResult, ntodo>>
    /\ UNCHANGED <<pvars, fvars, gvars, xvars>>

\* The orders in which the packets of the registrations in S can be dequeued.
Orders(S) ==
    {o \in [1..Cardinality(S) -> S] :
        \A a, b \in 1..Cardinality(S) : a # b => o[a] # o[b]}

\* Start of a loop iteration: the proactor dequeues the packets that have
\* arrived (order lists their registrations), gives each wait future the
\* result of finish_wait_for_handle, which polls the handle once more, and
\* thereby queues the step of the task awaiting it.
EPoll(order) ==
    /\ ntodo = 0
    /\ order # <<>> \/ ready # <<>>
    /\ LET S == {order[k] : k \in 1..Len(order)} IN
         /\ dw' = IF 0 \in S THEN [dw EXCEPT !.st = "woken"] ELSE dw
         /\ wmTasks' = [i \in DOMAIN wmTasks |->
                           IF i \in S THEN "woken" ELSE wmTasks[i]]
         /\ evSignaled' = [e \in Ev |->
                              IF \E r \in S : RegEvent(r) = e
                              THEN evSignaled[e] /\ evManual[e]
                              ELSE evSignaled[e]]
    /\ ready' = ready \o [k \in 1..Len(order) |->
                              IF order[k] = 0 THEN DwStep ELSE TaskStep(order[k])]
    /\ ntodo' = Len(ready')
    /\ UNCHANGED <<evManual, evEverSet, evSets, wmEvents, wmPc, wmWoken, wmResult>>
    /\ UNCHANGED <<pvars, fvars, gvars, xvars>>

\* The task suspended in ev.wait() resumes: `await fut` yields, whatever the
\* future's result, and wait() returns.
ERunWait ==
    /\ ntodo > 0 /\ Head(ready) = DwStep
    /\ dw' = [dw EXCEPT !.st = "returned"]
    /\ ready' = Tail(ready)
    /\ ntodo' = ntodo - 1
    /\ UNCHANGED <<evManual, evSignaled, evEverSet, evSets, wmEvents, wmPc,
                   wmTasks, wmWoken, wmResult>>
    /\ UNCHANGED <<pvars, fvars, gvars, xvars>>

\* The done callback of asyncio.wait is attached while wait_many is suspended.
CompletionOf(i) ==
    IF wmPc \in {"waiting", "cancelling"} THEN <<OnCompletion(i)>> ELSE <<>>

\* What proactor.wait_for_handle can do: it registers the wait; in a faulty
\* environment the registration may fail and the call raises OSError.
RegisterOutcomes == IF envFaulty THEN {"ok", "raise"} ELSE {"ok"}

\* One step of wait task i: its first step runs ev.wait() up to the await, or
\* ends the task with the exception wait() raised; a woken task returns from
\* wait() and is done; a task whose cancellation was requested ends cancelled.
ERunTask(i) ==
    /\ ntodo > 0 /\ Head(ready) = TaskStep(i)
    /\ ntodo' = ntodo - 1
    /\ CASE wmTasks[i] = "pending" ->
              \E out \in RegisterOutcomes :
                 IF out = "raise"
                 THEN /\ wmTasks' = [wmTasks EXCEPT ![i] = "raised"]
                      /\ ready' = Tail(ready) \o CompletionOf(i)
                      /\ UNCHANGED evSignaled
                 ELSE /\ wmTasks' = [wmTasks EXCEPT ![i] = WaitForHandle(wmEvents[i])]
                      /\ evSignaled' = Consume(evSignaled, wmEvents[i])
                      /\ ready' = Tail(ready)
         [] wmTasks[i] = "woken" ->
              /\ wmTasks' = [wmTasks EXCEPT ![i] = "done"]
              /\ ready' = Tail(ready) \o CompletionOf(i)
              /\ UNCHANGED evSignaled
         [] wmTasks[i] = "cancelling" ->
              /\ wmTasks' = [wmTasks EXCEPT ![i] = "cancelled"]
              /\ ready' = Tail(ready) \o CompletionOf(i)
              /\ UNCHANGED evSignaled
    /\ UNCHANGED <<evManual, evEverSet, evSets, dw, wmEvents, wmPc, wmWoken,
                   wmResult>>
    /\ UNCHANGED <<pvars, fvars, gvars, xvars>>

\* _on_completion of asyncio.wait (FIRST_COMPLETED): the first finished task
\* gives the waiter its result, which queues the resumption of wait_many.
ERunCompletion ==
    /\ ntodo > 0 /\ Head(ready).k = "completion"
    /\ ntodo' = ntodo - 1
    /\ IF wmPc = "waiting" /\ ~wmWoken
       THEN wmWoken' = TRUE /\ ready' = Tail(ready) \o <<WmStep>>
       ELSE UNCHANGED wmWoken /\ ready' = Tail(ready)
    /\ UNCHANGED <<evManual, evSignaled, evEverSet, evSets, dw, wmEvents, wmPc,
                   wmTasks, wmResult>>
    /\ UNCHANGED <<pvars, fvars, gvars, xvars>>

\* Task.done()
TaskDone(st) == st \in {"done", "cancelled", "raised"}

\* A winner taken from the input order alone.
WinnerIdxFirstInput(tasks) == 1

\* next(i for i, t in enumerate(tasks) if t in done)
WinnerIdx(tasks) ==
    CHOOSE i \in DOMAIN tasks :
        TaskDone(tasks[i]) /\ \A j \in 1..(i - 1) : ~TaskDone(tasks[j])

\* t.cancel(): a finished task is left alone; for an unfinished one the
\* cancellation is requested and takes effect at the task's next step.
CancelTask(st) ==
    IF st \in {"pending", "registered", "posted", "woken"} THEN "cancelling" ELSE st

\* Cancelling a task suspended on a pending wait future cancels that future,
\* which queues the task's step; a task that has a step queued keeps it.
CancelWakes(st) == st \in {"registered", "posted"}

\* cancel() on the task suspended in wait_many: the waiter future of
\* asyncio.wait is cancelled, which queues the task's step.
ECancelMany ==
    /\ wmPc = "waiting" /\ ~wmWoken
    /\ wmPc' = "cancelling"
    /\ wmWoken' = TRUE
    /\ ready' = ready \o <<WmStep>>
    /\ UNCHANGED <<evManual, evSignaled, evEverSet, evSets, dw, wmEvents, wmTasks,
                   wmResult, ntodo>>
    /\ UNCHANGED <<pvars, fvars, gvars, xvars>>

\* wait_many resumes from asyncio.wait: picks the winner, cancels the other
\* tasks and returns the winner's event.  Resumed by its own cancellation,
\* asyncio.wait removes its done callbacks and CancelledError leaves
\* wait_many, which has no handler around the await.
ERunMany ==
    /\ ntodo > 0 /\ Head(ready) = WmStep
    /\ ntodo' = ntodo - 1
    /\ IF wmPc = "cancelling"
       THEN /\ wmPc' = "cancelled"
            /\ ready' = Tail(ready)
            /\ UNCHANGED <<wmTasks, wmResult>>
       ELSE LET w == WinnerIdx(wmTasks)
                losers == SelectSeq([i \in 1..Len(wmTasks) |-> i],
                                    LAMBDA i : i # w /\ CancelWakes(wmTasks[i]))
            IN /\ wmTasks' = [i \in DOMAIN wmTasks |->
                                 IF i = w THEN wmTasks[i]
                                 ELSE CancelTask(wmTasks[i])]
               /\ ready' = Tail(ready)
                              \o [k \in 1..Len(losers) |-> TaskStep(losers[k])]
               /\ wmResult' = wmEvents[w]
               /\ wmPc' = "returned"
    /\ UNCHANGED <<evManual, evSignaled, evEverSet, evSets, dw, wmEvents, wmWoken>>
    /\ UNCHANGED <<pvars, fvars, gvars, xvars>>

\* The loop runs the oldest queued callback.
ELoop == ERunWait \/ (\E i \in DOMAIN wmTasks : ERunTask(i)) \/ ERunCompletion \/ ERunMany

\* The loop dequeues every packet that has been posted.
EPollAll == \E order \in Orders(RegsIn("posted")) : EPoll(order)

\* Steps of runs in which a task calls ev.wait() directly.
EWNext ==
    \/ \E e \in Ev, timed \in BOOLEAN : EWait(e, timed)
    \/ \E e \in Ev : ESet(e)
    \/ \E e \in Ev : EReset(e)
    \/ \E r \in RegsIn("registered") : ETimeout(r)
    \/ \E S \in SUBSET RegsIn("posted") : \E order \in Orders(S) : EPoll(order)
    \/ ERunWait

\* Steps of runs in which a task calls wait_many.
EMNext ==
    \/ \E evs \in ManyInputs : EWaitManyCall(evs)
    \/ \E e \in Ev : ESet(e)
    \/ \E e \in Ev : EReset(e)
    \/ \E S \in SUBSET RegsIn("posted") : \E order \in Orders(S) : EPoll(order)
    \/ \E i \in DOMAIN wmTasks : ERunTask(i)
    \/ ERunCompletion
    \/ ERunMany

\* Steps of runs in which the task calling wait_many may be cancelled.
ECNext == EMNext \/ ECancelMany

\* =====================================================================
\* The factories of the public surface
\* (fileio.py, pipe.py, stdin.py, win32event.py)
\* =====================================================================

Factories == {"open_async_reader", "open_async_writer", "create_pipe_pair",
              "AsyncStdinReader", "AsyncWin32Event"}
StdinTypes == {"char", "pipe", "other"}

NoFac == [st |-> "idle", natives |-> <<>>, open |-> 0]

\* Native handles a call of open_async_reader, open_async_writer or
\* create_pipe_pair holds when its first segment ends in state st: the file
\* handle, or the two ends of the pipe.  (The handles of the other factories
\* are not counted.)
Created(f, st) ==
    IF st # "await" THEN 0
    ELSE CASE f = "create_pipe_pair" -> 2
           [] f \in {"open_async_reader", "open_async_writer"} -> 1
           [] OTHER -> 0

\* Console modes: the combinations of ENABLE_LINE_INPUT and ENABLE_ECHO_INPUT.
Modes == 0..3

\* ConsoleModeGuard(handle, new_mode) on a console in the given mode.
NewGuard(mode, newMode) ==
    [mode |-> mode, atEnter |-> mode, new |-> newMode, saved |-> FALSE, old |-> 0,
     pc |-> "new", exc |-> FALSE, restores |-> 0, restoreOk |-> FALSE,
     exitRet |-> "none"]

\* A proactor loop is running and no factory has been called.
GZero ==
    /\ loopKind = "proactor" /\ stdinType = "pipe" /\ con = NewGuard(0, 0)
    /\ fac = [f \in Factories |-> NoFac]

\* Either kind of loop is running and no factory has been called.
GLoop ==
    /\ loopKind \in LoopKinds /\ stdinType = "pipe" /\ con = NewGuard(0, 0)
    /\ fac = [f \in Factories |-> NoFac]

GInit ==
    /\ loopKind \in LoopKinds /\ stdinType \in StdinTypes /\ con = NewGuard(0, 0)
    /\ fac = [f \in Factories |-> NoFac]

\* The call of factory f ends its first segment in state st having issued
\* the native calls natives.
FacSet(f, st, natives) ==
    /\ fac[f].st = "idle"
    /\ fac' = [fac EXCEPT ![f] = [st |-> st, natives |-> natives,
                                  open |-> Created(f, st)]]
    /\ UNCHANGED <<loopKind, stdinType, con>>
    /\ UNCHANGED <<pvars, fvars, evars, xvars>>

\* open_async_reader(path) up to the await of connect_read_pipe
FacOpenReader ==
    \E created \in BOOLEAN :
        IF EnsureProactorLoop(loopKind) # "ok"
        THEN FacSet("open_async_reader", "config", <<>>)
        ELSE IF ~created
        THEN FacSet("open_async_reader", "oserror", <<"CreateFile">>)
        ELSE FacSet("open_async_reader", "await",
                    <<"CreateFile", "connect_read_pipe">>)

\* open_async_writer(path) up to the await of the transport's waiter
FacOpenWriter ==
    \E created \in BOOLEAN :
        IF EnsureProactorLoop(loopKind) # "ok"
        THEN FacSet("open_async_writer", "config", <<>>)
        ELSE IF ~created
        THEN FacSet("open_async_writer", "oserror", <<"CreateFile">>)
        ELSE FacSet("open_async_writer", "await",
                    <<"CreateFile", "WritePipeTransport">>)

\* create_pipe_pair() up to the await of connect_read_pipe
FacCreatePipePair ==
    \E created \in BOOLEAN :
        IF EnsureProactorLoop(loopKind) # "ok"
        THEN FacSet("create_pipe_pair", "config", <<>>)
        ELSE IF ~created
        THEN FacSet("create_pipe_pair", "oserror", <<"pipe">>)
        ELSE FacSet("create_pipe_pair", "await", <<"pipe", "connect_read_pipe">>)

\* Native calls of AsyncStdinReader.__aenter__ before it connects the pipe.
StdinNatives(raw) ==
    <<"GetStdHandle", "GetFileType">>
    \o (IF stdinType = "char" /\ raw
        THEN <<"GetConsoleMode", "SetConsoleMode">> ELSE <<>>)
    \o (IF stdinType = "char" THEN <<"CreateFile">> ELSE <<>>)

\* async with AsyncStdinReader(raw_console=raw): __aenter__ up to the await
\* of connect_read_pipe
FacStdinEnter(raw) ==
    \E created \in BOOLEAN :
        IF EnsureProactorLoop(loopKind) # "ok"
        THEN FacSet("AsyncStdinReader", "config", <<>>)
        ELSE IF stdinType = "char" /\ ~created
        THEN FacSet("AsyncStdinReader", "oserror", StdinNatives(raw))
        ELSE FacSet("AsyncStdinReader", "await",
                    StdinNatives(raw) \o <<"connect_read_pipe">>)

\* AsyncWin32Event(): the constructor calls CreateEvent first and does not
\* look at the loop.
FacNewEvent ==
    \E created \in BOOLEAN :
        FacSet("AsyncWin32Event", IF created THEN "ok" ELSE "oserror",
               <<"CreateEvent">>)

\* A suspended factory call resumes.
FacResume(f) ==
    /\ fac[f].st \in {"await", "await2"}
    /\ fac' = [fac EXCEPT ![f] =
          CASE f = "open_async_reader" ->
                 IF WinapiHas("GetFileSizeEx")
                 THEN [@ EXCEPT !.st = "ok",
                                !.natives = @ \o <<"GetFileSizeEx">>]
                 ELSE [@ EXCEPT !.st = "attrerror"]
            [] f = "create_pipe_pair" /\ @.st = "await" ->
                 [@ EXCEPT !.st = "await2",
                           !.natives = @ \o <<"WritePipeTransport">>]
            [] OTHER -> [@ EXCEPT !.st = "ok"]]
    /\ UNCHANGED <<loopKind, stdinType, con>>
    /\ UNCHANGED <<pvars, fvars, evars, xvars>>

\* How the await a factory call is suspended in can end other than by its
\* result: connect_read_pipe can raise ("regerror") and be cancelled; the
\* await of a write transport's waiter can only be cancelled.
FailKinds(f, st) ==
    CASE f = "open_async_writer" -> {"cancelled"}
      [] f = "create_pipe_pair" /\ st = "await2" -> {"cancelled"}
      [] f = "AsyncWin32Event" -> {}
      [] OTHER -> {"regerror", "cancelled"}

\* Handles the loop itself releases when the await ends that way:
\* connect_read_pipe closes the transport it made before it re-raises; the
\* factories have no handler of their own.
ReleasedOnFailure(f, st) ==
    IF st = "await" /\ f \in {"open_async_reader", "create_pipe_pair"} THEN 1 ELSE 0

\* A suspended factory call ends with an exception raised at its await.
FacFail(f, how) ==
    /\ fac[f].st \in {"await", "await2"}
    /\ how \in FailKinds(f, fac[f].st)
    /\ fac' = [fac EXCEPT ![f] =
                  [@ EXCEPT !.st = how,
                            !.open = @ - ReleasedOnFailure(f, fac[f].st)]]
    /\ UNCHANGED <<loopKind, stdinType, con>>
    /\ UNCHANGED <<pvars, fvars, evars, xvars>>

GNext ==
    \/ FacOpenReader
    \/ FacOpenWriter
    \/ FacCreatePipePair
    \/ \E raw \in BOOLEAN : FacStdinEnter(raw)
    \/ FacNewEvent
    \/ \E f \in Factories : FacResume(f)
    \/ \E f \in Factories, how \in {"regerror", "cancelled"} : FacFail(f, how)

\* =====================================================================
\* ConsoleModeGuard (utils.py)
\* =====================================================================

\* A guard is constructed on a console in any mode, with any new mode.
GConsole ==
    /\ loopKind = "proactor" /\ stdinType = "char"
    /\ con \in {NewGuard(m, n) : m, n \in Modes}
    /\ fac = [f \in Factories |-> NoFac]

\* An __exit__ that never restores.
ExitRestoresNever(saved) == FALSE

\* __exit__ restores when old_mode is not None.
ExitRestores(saved) == saved

\* __enter__: get_console_mode, then set_console_mode(new_mode); either call
\* may fail, and then __enter__ raises and no scope is entered.
CgEnter ==
    /\ con.pc = "new"
    /\ \E getOk, setOk \in BOOLEAN :
          con' = IF ~getOk
                 THEN [con EXCEPT !.pc = "enterFailed"]
                 ELSE IF ~setOk
                 THEN [con EXCEPT !.pc = "enterFailed", !.saved = TRUE,
                                  !.old = con.mode, !.atEnter = con.mode]
                 ELSE [con EXCEPT !.pc = "in", !.saved = TRUE, !.old = con.mode,
                                  !.atEnter = con.mode, !.mode = con.new]
    /\ UNCHANGED <<loopKind, stdinType, fac>>
    /\ UNCHANGED <<pvars, fvars, evars, xvars>>

\* Inside the scope the console mode is changed to m.
CgBody(m) ==
    /\ con.pc = "in" /\ con.mode # m
    /\ con' = [con EXCEPT !.mode = m]
    /\ UNCHANGED <<loopKind, stdinType, fac>>
    /\ UNCHANGED <<pvars, fvars, evars, xvars>>

\* __exit__(exc_type, exc, tb) at the end of the scope, with or without an
\* exception in flight: one best-effort restore, whose failure is swallowed;
\* the method returns None.
CgExit(exc) ==
    /\ con.pc = "in"
    /\ \E ok \in BOOLEAN :
          con' = IF ExitRestores(con.saved)
                 THEN [con EXCEPT !.pc = "out", !.exc = exc, !.exitRet = "falsy",
                                  !.restores = @ + 1, !.restoreOk = ok,
                                  !.mode = IF ok THEN con.old ELSE @]
                 ELSE [con EXCEPT !.pc = "out", !.exc = exc, !.exitRet = "falsy"]
    /\ UNCHANGED <<loopKind, stdinType, fac>>
    /\ UNCHANGED <<pvars, fvars, evars, xvars>>

CNext ==
    \/ CgEnter
    \/ \E m \in Modes : CgBody(m)
    \/ \E exc \in BOOLEAN : CgExit(exc)

\* =====================================================================
\* AsyncStdinReader as an async-with scope (stdin.py)
\* =====================================================================

Stdin == "AsyncStdinReader"

\* A loop is running, STDIN is of any type, the console is in any mode and no
\* AsyncStdinReader has been entered.
GStdin ==
    /\ loopKind \in LoopKinds /\ stdinType \in StdinTypes
    /\ con \in {NewGuard(m, m) : m \in Modes}
    /\ fac = [f \in Factories |-> NoFac]

\* mode & ~ENABLE_LINE_INPUT & ~ENABLE_ECHO_INPUT, for a mode made of those
\* two bits.
RawMode(m) == 0

\* The console after ConsoleModeGuard(stdin_handle, new_mode).__enter__():
\* the mode is saved, then set unless set_console_mode fails.
GuardEntered(c, setOk) ==
    [c EXCEPT !.new = RawMode(c.mode), !.saved = TRUE, !.old = c.mode,
              !.atEnter = c.mode,
              !.pc = IF setOk THEN "in" ELSE "enterFailed",
              !.mode = IF setOk THEN RawMode(c.mode) ELSE @]

\* The console after self._console_guard.__exit__(exc_type, exc, tb).
GuardExited(c, exc, ok) ==
    IF c.pc = "in" /\ ExitRestores(c.saved)
    THEN [c EXCEPT !.pc = "out", !.exc = exc, !.exitRet = "falsy",
                   !.restores = @ + 1, !.restoreOk = ok,
                   !.mode = IF ok THEN c.old ELSE @]
    ELSE c

\* __aenter__ up to the await of connect_read_pipe.  On a console with
\* raw_console the guard is entered before CONIN$ is opened; a failing
\* get_console_mode, set_console_mode or CreateFile raises out of __aenter__.
SdEnter(raw) ==
    /\ fac[Stdin].st = "idle"
    /\ \E getOk, setOk, created \in BOOLEAN :
          LET guarded == stdinType = "char" /\ raw
              st == IF EnsureProactorLoop(loopKind) # "ok" THEN "config"
                    ELSE IF guarded /\ ~(getOk /\ setOk) THEN "oserror"
                    ELSE IF stdinType = "char" /\ ~created THEN "oserror"
                    ELSE "await"
          IN /\ fac' = [fac EXCEPT ![Stdin] =
                   [st |-> st,
                    natives |->
                        CASE st = "config" -> <<>>
                          [] st = "await" ->
                               StdinNatives(raw) \o <<"connect_read_pipe">>
                          [] st = "oserror" /\ guarded /\ ~getOk ->
                               SubSeq(StdinNatives(raw), 1, 3)
                          [] st = "oserror" /\ guarded /\ getOk /\ ~setOk ->
                               SubSeq(StdinNatives(raw), 1, 4)
                          [] OTHER -> StdinNatives(raw),
                    open |-> 0]]
             /\ con' = IF st # "config" /\ guarded /\ getOk
                       THEN GuardEntered(con, setOk) ELSE con
    /\ UNCHANGED <<loopKind, stdinType>>
    /\ UNCHANGED <<pvars, fvars, evars, xvars>>

\* __aexit__ up to its suspension, the scope ending with or without an
\* exception in flight: transport.close(), the release-wait when the
\* transport has one, then the guard's __exit__.  Nothing catches a failing
\* close; the statements after it are then not reached.
SdExit(exc) ==
    /\ fac[Stdin].st = "ok"
    /\ \E out \in CloseOutcomes(FALSE), hasWC, ok \in BOOLEAN :
          IF out = "raise"
          THEN /\ fac' = [fac EXCEPT ![Stdin].st = "exitRaised"]
               /\ UNCHANGED con
          ELSE IF hasWC
          THEN /\ fac' = [fac EXCEPT ![Stdin].st =
                             IF exc THEN "exitWaitExc" ELSE "exitWait"]
               /\ UNCHANGED con
          ELSE /\ fac' = [fac EXCEPT ![Stdin].st = "exited"]
               /\ con' = GuardExited(con, exc, ok)
    /\ UNCHANGED <<loopKind, stdinType>>
    /\ UNCHANGED <<pvars, fvars, evars, xvars>>

\* __aexit__ resumes from wait_closed(): with its result, with the exception
\* it raised, or with the cancellation of the task.
SdExitResume ==
    /\ fac[Stdin].st \in {"exitWait", "exitWaitExc"}
    /\ \E out \in WaitClosedOutcomes \cup {"cancelled"}, ok \in BOOLEAN :
          IF out = "ok"
          THEN /\ fac' = [fac EXCEPT ![Stdin].st = "exited"]
               /\ con' = GuardExited(con, fac[Stdin].st = "exitWaitExc", ok)
          ELSE /\ fac' = [fac EXCEPT ![Stdin].st = "exitRaised"]
               /\ UNCHANGED con
    /\ UNCHANGED <<loopKind, stdinType>>
    /\ UNCHANGED <<pvars, fvars, evars, xvars>>

SdNext ==
    \/ \E raw \in BOOLEAN : SdEnter(raw)
    \/ FacResume(Stdin)
    \/ \E how \in {"regerror", "cancelled"} : FacFail(Stdin, how)
    \/ \E exc \in BOOLEAN : SdExit(exc)
    \/ SdExitResume

\* A file writer has been opened; nothing else exists.
InitFile == PZero /\ FInit /\ EZero /\ GZero /\ XZero

SpecFile == InitFile /\ [][FNext]_vars

\* A pipe pair has been created; nothing else exists.
InitPipe == PInit /\ FZero /\ EZero /\ GZero /\ XZero

SpecPipe == InitPipe /\ [][PNext]_vars

\* Either a pipe pair or a file writer, with every stream object's actions.
InitIO == InitPipe \/ InitFile

SpecIO == InitIO /\ [][PNext \/ FNext]_vars

\* The stream objects with a second task that may close them as well.
SpecShared == InitIO /\ [][PNext \/ FNext \/ XNext]_vars

\* A pipe pair or a file writer in an environment whose close path fails.
InitIOFaulty ==
    /\ (PInit /\ FZero) \/ (PZero /\ FInit)
    /\ EZero /\ GZero /\ XFaulty

SpecIOFaulty == InitIOFaulty /\ [][PNext \/ FNext]_vars

\* The events have been created on a running loop; nothing else exists.
InitEvent == PZero /\ FZero /\ EInit /\ GLoop /\ XZero

\* wait() under a fair loop: a queued callback is eventually run and a
\* posted packet is eventually dequeued.
SpecWait ==
    /\ InitEvent
    /\ [][EWNext]_vars
    /\ WF_vars(ELoop) /\ WF_vars(EPollAll)

\* wait_many under a fair loop.
SpecMany ==
    /\ InitEvent
    /\ [][EMNext]_vars
    /\ WF_vars(ELoop) /\ WF_vars(EPollAll)

\* wait_many in an environment where registering a wait can fail.
InitEventFaulty == PZero /\ FZero /\ EInit /\ GLoop /\ XFaulty

SpecManyFaulty ==
    /\ InitEventFaulty
    /\ [][EMNext]_vars
    /\ WF_vars(ELoop) /\ WF_vars(EPollAll)

\* wait_many, with the calling task open to cancellation.
SpecManyCancel == InitEvent /\ [][ECNext]_vars

\* One async-with scope of AsyncStdinReader, with and without failures of the
\* transport's close path.
InitStdin == PZero /\ FZero /\ EZero /\ GStdin /\ (XZero \/ XFaulty)

SpecStdin == InitStdin /\ [][SdNext]_vars

\* One ConsoleModeGuard scope on a console.
InitConsole == PZero /\ FZero /\ EZero /\ GConsole /\ XZero

SpecConsole == InitConsole /\ [][CNext]_vars

\* A loop is running and no factory has been called yet.
InitFactory == PZero /\ FZero /\ EZero /\ GInit /\ XZero

SpecFactory == InitFactory /\ [][GNext]_vars

\* =====================================================================
\* Properties of the pipe pair (checked under SpecPipe)
\* =====================================================================

\* The reader task's last call has returned (or raised) having seen
\* end-of-stream.
SawEof == last.kind # "none" /\ last.eof /\ last.ret

\* C1: the bytes written through the AsyncPipeWriter by awaited write and
\* write_nowait calls, in any chunking, reach the paired reader's calls in
\* submission order with none lost or duplicated: at every moment what the
\* calls returned, what the reader buffers, what the pipe holds and what the
\* transport still queues make up exactly the bytes submitted; a call that
\* returns at end-of-stream has completed the returned bytes to all of them;
\* and a call made after one that saw end-of-stream returns nothing.
C1_PipeRoundTrip ==
    ~rCut =>
        /\ got \o partials \o rbuf \o chan \o wq = sent
        /\ (SawEof /\ partials = <<>>) => got = sent
        /\ (last.post /\ last.kind = "data") => last.data = <<>>

\* C1 witness: both bytes were written, the writer was closed, a read returned
\* them at end-of-stream and one more read returned nothing.
C1_Witness ==
    /\ ~rCut /\ Len(sent) = MaxBytes /\ got = sent /\ partials = <<>>
    /\ Len(wCloseRes) > 0 /\ last.post /\ last.kind = "data" /\ last.data = <<>>

\* C5: readexactly(n) on a stream that ends after k < n bytes raises the
\* short-read error, never returns normally, and the error's partial payload
\* is exactly the k bytes that were left: with it, every byte fed to the
\* reader has been handed out, in order, and the buffer is empty.
C5_ShortReadPartial ==
    /\ (last.n > 0 /\ last.kind = "data") => Len(last.data) = last.n
    /\ last.kind = "short" =>
           /\ last.n > 0 /\ Len(last.data) < last.n
           /\ rbuf = <<>> /\ reof
           /\ got \o partials = fed
           /\ Len(partials) >= Len(last.data)
           /\ Drop(partials, Len(partials) - Len(last.data)) = last.data

\* C5 witness: readexactly(2) raised with a one-byte partial payload.
C5_Witness ==
    last.kind = "short" /\ last.n = 2 /\ Len(last.data) = 1 /\ partials = fed

\* =====================================================================
\* Properties of the file objects (checked under SpecFile)
\* =====================================================================

\* C2: after open_async_writer(path), write(data) and aclose(),
\* open_async_reader(path) returns a reader; its unbounded read() returns
\* exactly data and a further read() returns nothing.
C2_FileRoundTrip ==
    (foAfterClose /\ foState \notin {"none", "connecting"}) =>
        /\ foState = "returned"
        /\ (frLast.calls = 1 /\ frLast.none) => frLast.data = fwSent
        /\ (frLast.calls = 2 /\ frGot = fwSent) => frLast.data = <<>>

\* C3: for an AsyncFileReader over a file of size S that is only read (read
\* with None or a positive size): the bytes returned so far and the remaining
\* budget add up to S; a read returns nothing exactly when the budget was 0
\* at the call, so reading until a read returns nothing has returned S bytes
\* in total, and a read at budget 0 returns nothing.
C3_BudgetedReads ==
    (frMade /\ ~frCut) =>
        /\ Len(frGot) + frRemaining = frSize
        /\ frLast.calls > 0 =>
               /\ (frLast.data = <<>>) <=> (frLast.before = 0)
               /\ frLast.data = <<>> => Len(frGot) = frSize

\* C3 witness: a file of MaxBytes bytes was read to the end and a further
\* read returned nothing.
C3_Witness ==
    /\ frMade /\ ~frCut /\ frSize = MaxBytes /\ Len(frGot) = frSize
    /\ frLast.calls > 1 /\ frLast.data = <<>> /\ frLast.before = 0

\* =====================================================================
\* Properties of all four stream objects (checked under SpecIO)
\* =====================================================================

\* Outcomes res of one task's aclose() calls on one object: no call after the
\* first raised.
QuietAfterFirst(res) == \A i \in 2..Len(res) : res[i] = "ok"

\* C4: on AsyncPipeReader, AsyncPipeWriter, AsyncFileReader and
\* AsyncFileWriter, an aclose() made after an earlier aclose() has completed
\* returns without raising, whatever was done before the first close.
C4_SecondCloseQuiet ==
    /\ QuietAfterFirst(rCloseRes)
    /\ QuietAfterFirst(wCloseRes)
    /\ QuietAfterFirst(frCloseRes)
    /\ QuietAfterFirst(fwCloseRes)

\* C4 witness: after writes and reads, the file writer and the file reader
\* have each been closed twice.
C4_Witness ==
    /\ Len(fwCloseRes) >= 2 /\ Len(frCloseRes) >= 2
    /\ fwSent # <<>> /\ frGot # <<>>

\* =====================================================================
\* Properties of the pipe pair, continued
\* =====================================================================

\* C9: w.write(payload) as a plain call, then await w.drain(), then
\* await w.aclose(): the paired reader's read() returns exactly payload.
C9_PlainWriteDelivered ==
    (/\ plain # <<>> /\ sent = <<>> /\ wDrained /\ Len(wCloseRes) > 0
     /\ ~rCut /\ SawEof /\ last.kind = "data" /\ ~last.post)
        => got = plain

\* C10: a read, readline or readexactly call that observes end-of-stream has
\* closed the bound transport by the time it returns or raises.
C10_EofClosesTransport == SawEof => rtClosing

\* =====================================================================
\* Properties of events and factories (checked under SpecWait, SpecMany, SpecFactory)
\* =====================================================================

\* State of wait task i of wait_many, "none" when there is no such task.
TaskState(i) == IF i \in DOMAIN wmTasks THEN wmTasks[i] ELSE "none"

\* wait_many was called with [e1, e2] and e1 has never been signaled.
C6Case == wmEvents = <<1, 2>> /\ wmPc \in {"waiting", "returned"} /\ ~evEverSet[1]

\* C6: wait_many([e1, e2]) where only e2 becomes signaled returns e2; the
\* wait task of e1 never completes, its cancellation has been requested when
\* wait_many returns, and under a fair loop it ends cancelled.
C6_WaitManyWinner ==
    /\ [](C6Case =>
            /\ TaskState(1) \notin {"posted", "woken", "done"}
            /\ wmPc = "returned" =>
                  (wmResult = 2 /\ TaskState(1) \in {"cancelling", "cancelled"}))
    /\ (C6Case /\ wmPc = "returned") ~> (TaskState(1) = "cancelled")

\* C6 witness: wait_many([e1, e2]) has returned e2 and the task of e1 has
\* ended cancelled, e1 never having been signaled.
C6_Witness ==
    /\ C6Case /\ wmPc = "returned" /\ wmResult = 2
    /\ TaskState(1) = "cancelled" /\ TaskState(2) = "done"

\* C7: a factory called while the loop is not proactor-backed fails with the
\* configuration error and has issued no native call.
C7_ConfigErrorFirst ==
    loopKind # "proactor" =>
        \A f \in Factories :
            fac[f].st # "idle" => (fac[f].st = "config" /\ fac[f].natives = <<>>)

\* C8: a wait() without timeout does not complete unless its event has been
\* signaled; a suspended wait never coexists with a signaled event (a set
\* releases it, or another wait of the same auto-reset event); and under a
\* fair loop a wait released by a set() returns.
C8_WaitUntilSet ==
    /\ []((dw.st \in {"posted", "woken", "returned"} /\ ~dw.timed)
             => (evEverSet[dw.ev] /\ dw.by \in {"signaled", "set"}))
    /\ [](dw.st = "registered" => ~evSignaled[dw.ev])
    /\ (dw.st = "posted" /\ dw.by = "set") ~> (dw.st = "returned")

\* C8 witness: a wait() without timeout that was suspended on an unsignaled
\* event has returned after a set() released it.
C8_Witness ==
    dw.st = "returned" /\ ~dw.timed /\ dw.by = "set" /\ evSets > 0

\* =====================================================================
\* Further properties of events (SpecWait, SpecMany)
\* =====================================================================

\* C13: a wait(timeout) that ended because its deadline passed does not
\* return normally.
C13_TimeoutRaises == dw.st = "returned" => dw.by # "timeout"

\* C19: at every moment each event handle has at most one outstanding wait
\* registration.
C19_OneRegistrationPerHandle == \A e \in Ev : Cardinality(RegsOn(e)) <= 1

\* Wait tasks of wait_many that are neither cancelled nor about to be.
Uncancelled == {i \in DOMAIN wmTasks : wmTasks[i] \notin {"cancelling", "cancelled"}}

\* C20: when wait_many has returned, every wait task but the winner's has
\* been cancelled (or is at least about to be): no other wait has completed.
C20_LosersCancelledAtReturn == wmPc = "returned" => Cardinality(Uncancelled) <= 1

\* =====================================================================
\* Further properties of AsyncFileReader (SpecFile)
\* =====================================================================

\* C17: a read() called while the remaining budget is 0 has closed the
\* transport when it returns.
C17_ReadAtZeroCloses ==
    (frMade /\ frLast.calls > 0 /\ frLast.before = 0 /\ frpc = "idle") => frtClosing

\* Largest number of bytes the last read was allowed to return.
LastAllowance == IF frLast.none THEN frLast.before ELSE Min(frLast.n, frLast.before)

\* C18: the remaining budget of an AsyncFileReader is a natural number that
\* never increases; a read (None or a positive size n) returns at most
\* min(n, remaining) bytes, at most remaining for None; afterwards remaining
\* is its previous value minus the number of bytes returned; and once a read
\* has brought remaining to 0 the transport has been closed.
C18_BudgetInvariant ==
    /\ [](frMade => frRemaining \in 0..frSize)
    /\ [][frMade => frRemaining' <= frRemaining]_vars
    /\ [](frLast.calls > 0 =>
             /\ Len(frLast.data) <= LastAllowance
             /\ frRemaining = frLast.before - Len(frLast.data)
             /\ (frLast.before > 0 /\ frRemaining = 0) => frtClosing)

\* C18 witness: a read with a size has brought the budget of a file of
\* MaxBytes bytes to 0, has closed the transport and has returned.
C18_Witness ==
    /\ frMade /\ frSize = MaxBytes /\ ~frLast.none /\ frLast.before > 0
    /\ frLast.data # <<>> /\ frRemaining = 0 /\ frtClosing /\ frpc = "idle"

\* =====================================================================
\* Properties of the close paths (SpecIO, SpecShared, SpecIOFaulty)
\* =====================================================================

\* C11: when the transport supports release-wait, an aclose() that has
\* returned, whoever called it, has found the handle released.
C11_ReturnMeansReleased ==
    \A o \in Objs :
        Capable(o) =>
            /\ CloseResOf(o) # <<>> => HandleReleased(o)
            /\ xRet[o] # "unreleased"

\* C12: no aclose() call raises, whichever call of the close path fails.
C12_CloseNeverRaises ==
    \A o \in Objs : \A i \in 1..Len(CloseResOf(o)) : CloseResOf(o)[i] = "ok"

C14_FailurePropagates ==
    wmPc = "returned" => \E i \in DOMAIN wmTasks : wmTasks[i] = "done"

\* =====================================================================
\* Properties of ConsoleModeGuard (SpecConsole)
\* =====================================================================

\* C15: after the __exit__ of an entered scope, on the normal and on the
\* exceptional path: exactly one restore was made; if it succeeded the
\* console mode is the one found by __enter__; and __exit__ neither raised
\* nor returned a true value, so an exception in flight goes on.
C15_GuardRestores ==
    con.pc = "out" =>
        /\ con.restores = 1
        /\ con.restoreOk => con.mode = con.atEnter
        /\ con.exitRet = "falsy"

\* C15 witness: a scope that changed the mode ended with an exception in
\* flight and the console is back in the mode found by __enter__.
C15_Witness ==
    /\ con.pc = "out" /\ con.exc /\ con.restoreOk /\ con.restores = 1
    /\ con.mode = con.atEnter /\ con.new # con.atEnter

\* =====================================================================
\* Drain and release at the writers' aclose (SpecIO)
\* =====================================================================

\* The write transports release their handle only with nothing left to write.
ReleaseAfterDrain ==
    /\ wReleased => wq = <<>>
    /\ fwReleased => (fwBuf = <<>> /\ ~fwWriting)

\* The pipe's reading end is fed end-of-stream only after every byte queued
\* by write and write_nowait, in order.
EofAfterData == (reof /\ ~rCut) => fed = sent

\* A writer's aclose has returned only with its transport drained and its
\* handle released.
ReturnAfterRelease ==
    /\ wCloseRes # <<>> => (wq = <<>> /\ wReleased)
    /\ fwCloseRes # <<>> => (fwBuf = <<>> /\ ~fwWriting /\ fwReleased)

\* C21: data queued on a writer before aclose() is delivered completely and
\* in order before the receiving end sees end-of-stream, the transport is not
\* released while queued data is undelivered, and aclose() returns only
\* after the drain and the release.
C21_DrainThenRelease == ReleaseAfterDrain /\ EofAfterData /\ ReturnAfterRelease

\* =====================================================================
\* Backpressure at the writers' write calls (SpecIO)
\* =====================================================================

\* C22: an awaited write has returned only with its data queued on the
\* transport and the protocol not paused, on the pipe writer and on the file
\* writer; write_nowait has queued its data and has returned without
\* suspending, paused or not.
C22_WriteWaitsForBackpressure ==
    /\ (wLast.kind = "await" /\ wpc # "drain") => (wLast.queued /\ ~wPaused)
    /\ wLast.kind = "nowait" => (wLast.queued /\ wpc # "drain")
    /\ fwpc # "drain" => (~fwPaused /\ disk \o fwBuf = fwSent)

\* C22 witness: an awaited write has filled the byte budget, was suspended
\* by the paused transport and has returned.
C22_Witness ==
    /\ wLast.kind = "await" /\ wLast.queued /\ Len(sent) = MaxBytes
    /\ wpc = "idle" /\ ~wPaused

\* =====================================================================
\* Cancellation of the task in wait_many (SpecManyCancel)
\* =====================================================================

\* Wait tasks of wait_many that are neither finished nor being cancelled.
LiveTasks ==
    {i \in DOMAIN wmTasks : wmTasks[i] \in {"pending", "registered", "posted", "woken"}}

\* C23: once the cancellation of the task suspended in wait_many has been
\* delivered, every wait task it started is finished or being cancelled, and
\* none of their registrations is outstanding.
C23_CancelReleasesWaits ==
    wmPc = "cancelled" =>
        /\ LiveTasks = {}
        /\ \A e \in Ev : RegsOn(e) \cap DOMAIN wmTasks = {}

\* =====================================================================
\* Signals of the events wait_many does not return (SpecMany)
\* =====================================================================

\* Waits of wait_many that were satisfied by an auto-reset event other than
\* the one wait_many returned.
SatisfiedLosers ==
    {i \in DOMAIN wmTasks : /\ wmTasks[i] = "done"
                            /\ wmEvents[i] # wmResult
                            /\ ~evManual[wmEvents[i]]}

\* C24: when wait_many has returned, an auto-reset event it did not return
\* and whose wait was satisfied is still signaled.
C24_NoSignalLost ==
    wmPc = "returned" => \A i \in SatisfiedLosers : evSignaled[wmEvents[i]]

\* =====================================================================
\* Handles of a failed factory call (SpecFactory)
\* =====================================================================

\* The call of factory f has ended with an exception after its first await.
FailedLate(f) == fac[f].st \in {"attrerror", "regerror", "cancelled"}

\* C25: when open_async_reader, open_async_writer or create_pipe_pair has
\* failed after creating its native handle (the loop registration or the
\* file-size query failed, or the caller was cancelled), none of the handles
\* it created is still open.
C25_FailedFactoryReleases ==
    \A f \in {"open_async_reader", "open_async_writer", "create_pipe_pair"} :
        FailedLate(f) => fac[f].open = 0

\* =====================================================================
\* Console mode around an AsyncStdinReader scope (SpecStdin)
\* =====================================================================

\* Control has left the async-with statement: __aenter__ raised, or __aexit__
\* returned or raised.
LeftScope ==
    fac[Stdin].st \in {"oserror", "regerror", "cancelled", "exited", "exitRaised"}

\* C26: when control has left the scope of an AsyncStdinReader whose entry
\* changed the console mode, the guard's __exit__ has run, and the console is
\* back in the mode found at entry unless that restore call itself failed.
C26_StdinRestoresMode ==
    (LeftScope /\ con.pc \in {"in", "out"} /\ con.new # con.atEnter) =>
        /\ con.pc = "out"
        /\ con.restoreOk => con.mode = con.atEnter

====
